---- MODULE Spec2Model ----
(***************************************************************************)
(* Closed-loop speed controller of src/simulacion.py (SistemaControlMotor). *)
(*                                                                         *)
(* The program computes in floating point.  The model computes in fixed    *)
(* point, every division rounded to the nearest unit:                      *)
(*   speeds, rpm, control signal, P, I, D        1/1000   (Escala)         *)
(*   voltages                                    1/10000  (EscalaVolt)     *)
(*   the integral accumulator                    1/1000000 (EscalaIntegral)*)
(*   time and dt                                 milliseconds              *)
(*   gains Kp, Ki, Kd and gain multipliers       1/100 and 1/10            *)
(* velocidad_nominal is kept in whole km/h, as the sliders deliver it      *)
(* (valstep=1), so that rpm * velocidad_nominal stays inside 32 bits.      *)
(***************************************************************************)
EXTENDS Integers, Sequences, FiniteSets, TLC

VARIABLES
    dt,                     \* self.dt, ms
    velocidad_nominal,      \* self.velocidad_nominal, km/h
    velocidad_actual,       \* self.velocidad_actual, 1/1000 km/h
    rpm_ctrl,               \* self.rpm_ctrl, 1/1000 rpm
    rpm_reales,             \* self.rpm_reales, 1/1000 rpm
    error_kmh,              \* self.error_kmh, 1/1000 km/h
    error_volts,            \* self.error_volts, 1/10000 V
    senal_control_interna,  \* self.senal_control_interna, 1/1000
    senal_control_volts,    \* self.senal_control_volts, 1/10000 V
    retroalimentacion,      \* self.retroalimentacion, 1/1000 km/h
    tiempo_transcurrido,    \* self.tiempo_transcurrido, ms
    integral,               \* self.integral, 1/1000000
    error_anterior_kmh,     \* self.error_anterior_kmh, 1/1000 km/h
    velocidad_anterior,     \* self.velocidad_anterior, 1/1000 km/h
    tendencia,              \* self.tendencia, 1/1000 km/h per second
    historial,              \* the fifteen historial_* deques, one field each
    accion_correctiva,      \* local of the last tick, handed to log_valores
    perturbacion_atenuada,  \* local of the last tick, handed to log_valores
    log_lineas,             \* number of calls of log_valores so far
    fallo,                  \* exception raised by the last call, or "ninguno"
    ticks,                  \* number of calls of actualizar_sistema so far
    guion                   \* what drives the sliders: "libre" or a script

vars == <<dt, velocidad_nominal, velocidad_actual, rpm_ctrl, rpm_reales,
          error_kmh, error_volts, senal_control_interna, senal_control_volts,
          retroalimentacion, tiempo_transcurrido, integral, error_anterior_kmh,
          velocidad_anterior, tendencia, historial, accion_correctiva,
          perturbacion_atenuada, log_lineas, fallo, ticks, guion>>

----
\* Scales of the fixed-point representation.
Escala == 1000
EscalaVolt == 10000
EscalaIntegral == 1000000

\* Bounds of the exploration.
MaxTicks == 4
MaxTicksGuion == 300
TicksAsentamiento == 150

\* Slider values tried by the free exploration (raw rpm, whole km/h).
Perturbaciones == {-150 * Escala, 0, 250 * Escala}
Nominales == {40, 80, 110}
DtValores == {-100, 0, 100}

----
\* Program constants (SistemaControlMotor.__init__).
dt_inicial == 100
velocidad_nominal_inicial == 80
rpm_nominal == 5500
velocidad_min == 50
velocidad_max == 100
vss_vel_min == 50
vss_vel_max == 100
vss_volt_min == 0
vss_volt_max == 5
senal_ctrl_offset == 25000
rango_offset_min == -2
rango_offset_max == 1
velocidad_inicial == 70
rpm_inicial == 4812
Kp == 400
Ki == 20
Kd == 80
factor_atenuacion_perturbacion == 3
max_points == 150
puntos_iniciales == 5
MAX_CTRL_INTERNA == 25
rpm_limite_min == 4700
rpm_limite_max == 6300
ganancia_base_inicial == 180
log_cada == 5

----
\* Float division a / b, rounded to the nearest unit (b # 0).
Div(a, b) ==
    IF b > 0 THEN (2 * a + b) \div (2 * b)
             ELSE (2 * (0 - a) + (0 - b)) \div (2 * (0 - b))

Abs(x) == IF x < 0 THEN 0 - x ELSE x

\* np.clip(x, lo, hi)
clip(x, lo, hi) == IF x < lo THEN lo ELSE IF x > hi THEN hi ELSE x

Last(s) == s[Len(s)]

----
\* velocidad_a_voltaje: km/h (1/1000) to VSS volts (1/10000), clipped to 0..5 V.
velocidad_a_voltaje(velocidad) ==
    IF vss_vel_max = vss_vel_min
    THEN 0
    ELSE clip(Div((velocidad - vss_vel_min * Escala)
                    * (vss_volt_max - vss_volt_min) * (EscalaVolt \div Escala),
                  vss_vel_max - vss_vel_min)
                + vss_volt_min * EscalaVolt,
              vss_volt_min * EscalaVolt, vss_volt_max * EscalaVolt)

\* An inverse conversion that leaves out the origin of the speed range.
voltaje_a_velocidad_sin_origen(voltaje) ==
    IF vss_volt_max = vss_volt_min
    THEN vss_vel_min * Escala
    ELSE Div((voltaje - vss_volt_min * EscalaVolt) * (vss_vel_max - vss_vel_min),
             (vss_volt_max - vss_volt_min) * (EscalaVolt \div Escala))

\* voltaje_a_velocidad: VSS volts (1/10000) to km/h (1/1000), not clipped.
voltaje_a_velocidad(voltaje) ==
    IF vss_volt_max = vss_volt_min
    THEN vss_vel_min * Escala
    ELSE Div((voltaje - vss_volt_min * EscalaVolt) * (vss_vel_max - vss_vel_min),
             (vss_volt_max - vss_volt_min) * (EscalaVolt \div Escala))
           + vss_vel_min * Escala

\* The voltage difference read as km/h, without the scale of the ranges.
error_volts_sin_escala(ev) == Div(ev * Escala, EscalaVolt)

\* error_volts_a_kmh: a voltage difference times (km/h span) / (volt span).
error_volts_a_kmh(ev) ==
    Div(ev * (vss_vel_max - vss_vel_min),
        (vss_volt_max - vss_volt_min) * (EscalaVolt \div Escala))

\* A mapping with the sign of the command inverted around 2.5 V.
senal_control_a_voltaje_invertida(senal) ==
    LET senal_escalada ==
            Div(clip(senal, (0 - MAX_CTRL_INTERNA) * Escala, MAX_CTRL_INTERNA * Escala)
                  * senal_ctrl_offset,
                MAX_CTRL_INTERNA * Escala)
        voltaje_final == senal_ctrl_offset - senal_escalada
    IN  clip(voltaje_final, vss_volt_min * EscalaVolt, vss_volt_max * EscalaVolt)

\* senal_control_a_voltaje: internal command (1/1000) to 0..5 V around 2.5 V.
senal_control_a_voltaje(senal) ==
    LET senal_escalada ==
            Div(clip(senal, (0 - MAX_CTRL_INTERNA) * Escala, MAX_CTRL_INTERNA * Escala)
                  * senal_ctrl_offset,
                MAX_CTRL_INTERNA * Escala)
        voltaje_final == senal_escalada + senal_ctrl_offset
    IN  clip(voltaje_final, vss_volt_min * EscalaVolt, vss_volt_max * EscalaVolt)

\* get_rango_objetivo for the target vn (km/h), in 1/1000 km/h.
rango_min(vn) == (vn + rango_offset_min) * Escala
rango_max(vn) == (vn + rango_offset_max) * Escala

\* A band test that excludes the two ends of the band.
esta_en_rango_abierto(vn, v) == rango_min(vn) < v /\ v < rango_max(vn)

\* esta_en_rango_objetivo for target vn (km/h) and speed v (1/1000 km/h).
esta_en_rango_objetivo(vn, v) == rango_min(vn) <= v /\ v <= rango_max(vn)

\* A shaper that attenuates the raw value without limiting it first.
atenuar_sin_limitar(perturbacion) ==
    Div(perturbacion * factor_atenuacion_perturbacion, 10)

\* A shaper that attenuates first and limits the attenuated value.
limitar_tras_atenuar(perturbacion) ==
    clip(Div(perturbacion * factor_atenuacion_perturbacion, 10),
         (0 - 100) * Escala, 200 * Escala)

\* aplicar_perturbacion_atenuada: clip to -100..200 rpm, then times 0.3.
aplicar_perturbacion_atenuada(perturbacion) ==
    LET perturbacion_limited == clip(perturbacion, (0 - 100) * Escala, 200 * Escala)
    IN  Div(perturbacion_limited * factor_atenuacion_perturbacion, 10)

----
\* The steps of calcular_control_proporcional_inteligente, for target vn (km/h),
\* start-of-tick speed v and error e (both 1/1000 km/h).

\* A trend that is the difference of the two speeds, not divided by dt.
TendenciaSinDt(v) ==
    IF Len(historial.salida) >= 2
    THEN v - velocidad_anterior
    ELSE tendencia

\* A trend read from the last two recorded speeds of the history.
TendenciaDelHistorial(salida, v) ==
    IF Len(salida) >= 2
    THEN Div((salida[Len(salida)] - salida[Len(salida) - 1]) * 1000, dt)
    ELSE tendencia

\* Step 1 for a system whose historial_salida is salida: the trend is
\* computed when the series holds at least two samples.
TendenciaCon(salida, v) ==
    IF Len(salida) >= 2
    THEN Div((v - velocidad_anterior) * 1000, dt)
    ELSE tendencia

\* Step 1: the trend; the history always holds at least two samples.
TendenciaNueva(v) == TendenciaCon(historial.salida, v)

\* A proportional term without the reduced gain near the ends of the band.
ProporcionalSinReduccion(vn, v, e) ==
    LET fuera == ~esta_en_rango_objetivo(vn, v)
        error_efectivo == IF fuera THEN vn * Escala - v ELSE e
        Kp_efectivo ==
            IF fuera
            THEN IF v > rango_max(vn) THEN Div(Kp * 15, 10) ELSE Div(Kp * 13, 10)
            ELSE Kp
    IN  Div(Kp_efectivo * error_efectivo, 100)

\* Step 2: gain-scheduled proportional term.
Proporcional(vn, v, e) ==
    LET fuera == ~esta_en_rango_objetivo(vn, v)
        error_efectivo == IF fuera THEN vn * Escala - v ELSE e
        margen == 300
        Kp_efectivo ==
            IF fuera
            THEN IF v > rango_max(vn) THEN Div(Kp * 15, 10) ELSE Div(Kp * 13, 10)
            ELSE IF v > vn * Escala + margen \/ v < vn * Escala - margen
                 THEN Div(Kp * 7, 10)
                 ELSE Kp
    IN  Div(Kp_efectivo * error_efectivo, 100)

\* The integral of the superseded plain PID (comportamientoAdecuadoBASE.py):
\* it accumulates error * dt on every call and is limited to +-15.
IntegralPID(vn, v, e) ==
    clip(integral + Div(e * dt, 1000) * (EscalaIntegral \div Escala),
         (0 - 15) * EscalaIntegral, 15 * EscalaIntegral)

\* An integral that accumulates whenever the speed is in the band, whatever
\* the size of the error.
IntegralSinUmbral(vn, v, e) ==
    IF esta_en_rango_objetivo(vn, v)
    THEN clip(integral + Div(e * dt * 2 * (EscalaIntegral \div Escala), 100 * 1000),
              (0 - 2) * EscalaIntegral, 2 * EscalaIntegral)
    ELSE Div(integral * 9, 10)

\* Step 3: the anti-windup integral, accumulate (limited to +-2) or decay.
IntegralNueva(vn, v, e) ==
    IF esta_en_rango_objetivo(vn, v) /\ Abs(e) < 1 * Escala
    THEN clip(integral + Div(e * dt * 2 * (EscalaIntegral \div Escala), 100 * 1000),
              (0 - 2) * EscalaIntegral, 2 * EscalaIntegral)
    ELSE Div(integral * 9, 10)

\* A derivative term taken from the previous error to the current one.
DerivativoInvertido(e) ==
    LET derivativo == IF dt > 0
                      THEN Div((error_anterior_kmh - e) * 1000, dt)
                      ELSE 0
    IN  Div(Kd * derivativo, 100)

\* Step 4: the derivative term, short-circuited to 0 unless dt > 0.
Derivativo(e) ==
    LET derivativo == IF dt > 0
                      THEN Div((e - error_anterior_kmh) * 1000, dt)
                      ELSE 0
    IN  Div(Kd * derivativo, 100)

\* A controller without the predictive correction.
SinAccionCorrectiva(vn, velocidad_proyectada) == 0

\* A corrective term with the two correction gains exchanged.
AccionCorrectivaGananciasCambiadas(vn, velocidad_proyectada) ==
    IF velocidad_proyectada > rango_max(vn) + 300
    THEN LET exceso == velocidad_proyectada - (rango_max(vn) + 200)
         IN  0 - exceso * 6
    ELSE IF velocidad_proyectada < rango_min(vn) - 300
         THEN LET deficit == (rango_min(vn) - 200) - velocidad_proyectada
              IN  deficit * 10
         ELSE 0

\* Step 5: the predictive corrective term for the projected speed.
AccionCorrectiva(vn, velocidad_proyectada) ==
    IF velocidad_proyectada > rango_max(vn) + 300
    THEN LET exceso == velocidad_proyectada - (rango_max(vn) + 200)
         IN  0 - exceso * 10
    ELSE IF velocidad_proyectada < rango_min(vn) - 300
         THEN LET deficit == (rango_min(vn) - 200) - velocidad_proyectada
              IN  deficit * 6
         ELSE 0

\* A saturation with the range of the normal zone in every zone.
LimitacionSimetrica(vn, v, control) ==
    clip(control, (0 - 25) * Escala, 25 * Escala)

\* Step 6: zone-dependent saturation of the summed command.
Limitacion(vn, v, control) ==
    IF v > rango_max(vn) + 200
    THEN clip(control, (0 - 30) * Escala, 5 * Escala)
    ELSE IF v < rango_min(vn) - 200
         THEN clip(control, (0 - 5) * Escala, 20 * Escala)
         ELSE clip(control, (0 - 25) * Escala, 25 * Escala)

\* Steps 2 to 6 of calcular_control_proporcional_inteligente for the trend
\* tend of step 1: what the call returns and what it leaves in self.
ControlCon(tend, vn, ev) ==
    LET e == error_volts_a_kmh(ev)
        v == velocidad_actual
        P == Proporcional(vn, v, e)
        integ == IntegralNueva(vn, v, e)
        I == Div(Ki * integ, 100 * (EscalaIntegral \div Escala))
        D == Derivativo(e)
        velocidad_proyectada == v + Div(tend * dt, 1000)
        ac == AccionCorrectiva(vn, velocidad_proyectada)
    IN  [control |-> Limitacion(vn, v, P + I + D + ac),
         P |-> P, I |-> I, D |-> D, accion_correctiva |-> ac,
         tendencia |-> tend, integral |-> integ,
         velocidad_anterior |-> v, error_anterior_kmh |-> e]

\* calcular_control_proporcional_inteligente(error_volts): what it returns and
\* what it leaves in self.
calcular_control_proporcional_inteligente(vn, ev) ==
    ControlCon(TendenciaNueva(velocidad_actual), vn, ev)

----
\* The plant steps of actualizar_sistema.

\* A plant gain that is not raised outside the band.
ganancia_base_fija(vn, v) == ganancia_base_inicial

\* ganancia_base (1/10): 18, times 1.3 when the speed is outside the band.
ganancia_base(vn, v) ==
    IF ~esta_en_rango_objetivo(vn, v)
    THEN Div(ganancia_base_inicial * 13, 10)
    ELSE ganancia_base_inicial

\* The integration with the sign of the command inverted.
RpmCtrlInvertida(control, ganancia) ==
    LET rpm_cambio == Div(control * ganancia, 10)
    IN  clip(rpm_ctrl - Div(rpm_cambio * dt, 1000),
             rpm_limite_min * Escala, rpm_limite_max * Escala)

\* rpm_ctrl += rpm_cambio * dt, limited to 4700..6300.
RpmCtrlNueva(control, ganancia) ==
    LET rpm_cambio == Div(control * ganancia, 10)
    IN  clip(rpm_ctrl + Div(rpm_cambio * dt, 1000),
             rpm_limite_min * Escala, rpm_limite_max * Escala)

\* rpm_ctrl alone: the disturbance is not added.
RpmRealesSinPerturbacion(rc, pa) ==
    clip(rc, rpm_limite_min * Escala, rpm_limite_max * Escala)

\* rpm_ctrl plus the disturbance, without the limit.
RpmRealesSinLimite(rc, pa) == rc + pa

\* rpm_reales = rpm_ctrl + perturbacion_atenuada, limited to 4700..6300.
RpmRealesNueva(rc, pa) ==
    clip(rc + pa, rpm_limite_min * Escala, rpm_limite_max * Escala)

\* The speed from the rpm, without the limit.
VelocidadSinLimite(rr, vn) == Div(rr * vn, rpm_nominal)

\* velocidad_actual = rpm_reales / rpm_nominal * velocidad_nominal, limited
\* to velocidad_min..velocidad_max.
VelocidadNueva(rr, vn) ==
    clip(Div(rr * vn, rpm_nominal), velocidad_min * Escala, velocidad_max * Escala)

\* list.append: a history that is never trimmed.
append_sin_maxlen(d, x) == Append(d, x)

\* deque.appendleft: the new entry goes first and a full deque drops its last.
appendleft(d, x) ==
    IF Len(d) >= max_points
    THEN <<x>> \o SubSeq(d, 1, max_points - 1)
    ELSE <<x>> \o d

\* A deque that drops its oldest entry only once it holds more than maxlen.
append_maxlen_tardio(d, x) ==
    IF Len(d) > max_points THEN Append(Tail(d), x) ELSE Append(d, x)

\* deque(maxlen=max_points).append(x): the oldest entry leaves a full deque.
append(d, x) ==
    IF Len(d) >= max_points THEN Append(Tail(d), x) ELSE Append(d, x)

----
\* SistemaControlMotor.__init__ with self.dt = d; g names the slider script.
Construido(d, g) ==
    /\ dt = d
    /\ guion = g
    /\ velocidad_nominal = velocidad_nominal_inicial
    /\ velocidad_actual = velocidad_inicial * Escala
    /\ rpm_ctrl = rpm_inicial * Escala
    /\ rpm_reales = rpm_inicial * Escala
    /\ error_kmh = 0
    /\ error_volts = 0
    /\ senal_control_interna = 0
    /\ senal_control_volts = 0
    /\ retroalimentacion = 0
    /\ tiempo_transcurrido = 0
    /\ integral = 0
    /\ error_anterior_kmh = 0
    /\ velocidad_anterior = velocidad_inicial * Escala
    /\ tendencia = 0
    /\ accion_correctiva = 0
    /\ perturbacion_atenuada = 0
    /\ log_lineas = 0
    /\ fallo = "ninguno"
    /\ ticks = 0
    /\ historial =
         [tiempo           |-> [i \in 1..puntos_iniciales |-> (i - 1) * d],
          entrada          |-> [i \in 1..puntos_iniciales |-> velocidad_nominal_inicial],
          salida           |-> [i \in 1..puntos_iniciales |-> velocidad_inicial * Escala],
          error_kmh        |-> [i \in 1..puntos_iniciales |-> 0],
          error_volts      |-> [i \in 1..puntos_iniciales |-> 0],
          control_interna  |-> [i \in 1..puntos_iniciales |-> 0],
          control_volts    |-> [i \in 1..puntos_iniciales |-> senal_ctrl_offset],
          perturbacion     |-> [i \in 1..puntos_iniciales |-> 0],
          retro            |-> [i \in 1..puntos_iniciales |-> velocidad_inicial * Escala],
          proporcional     |-> [i \in 1..puntos_iniciales |-> 0],
          integral         |-> [i \in 1..puntos_iniciales |-> 0],
          derivativo       |-> [i \in 1..puntos_iniciales |-> 0],
          rpm_ctrl         |-> [i \in 1..puntos_iniciales |-> rpm_inicial * Escala],
          rpm_reales       |-> [i \in 1..puntos_iniciales |-> rpm_inicial * Escala],
          en_rango         |-> [i \in 1..puntos_iniciales |->
                                  esta_en_rango_objetivo(velocidad_nominal_inicial,
                                                         velocidad_inicial * Escala)]]

\* A clock that continues the time stamps of the history instead.
TiempoDelHistorial == Last(historial.tiempo) + dt

\* The new time: self.tiempo_transcurrido += self.dt.
TiempoNuevo == tiempo_transcurrido + dt

\* A time stamp taken from the clock of the system.
tiempo_del_reloj == TiempoNuevo

\* tiempo_actual: the time stamp of the new sample, the last one plus dt.
tiempo_actual ==
    IF Len(historial.tiempo) > 0 THEN Last(historial.tiempo) + dt ELSE 0

\* The target a call works with: the argument, or the current one for None
\* (objetivo is {} for None and {vn} for a target).
NominalNueva(objetivo) ==
    IF objetivo = {} THEN velocidad_nominal ELSE CHOOSE x \in objetivo : TRUE

\* The values one complete call of actualizar_sistema computes from the
\* current state, in the order of the code, when step 1 of the controller
\* call gives the trend tend.
PasoCon(tend, perturbacion, objetivo) ==
    LET vn == NominalNueva(objetivo)
        voltaje_nominal == velocidad_a_voltaje(vn * Escala)
        voltaje_actual == velocidad_a_voltaje(velocidad_actual)
        ev == voltaje_nominal - voltaje_actual
        c == ControlCon(tend, vn, ev)
        volts == senal_control_a_voltaje(c.control)
        ekmh == vn * Escala - velocidad_actual
        rc == RpmCtrlNueva(c.control, ganancia_base(vn, velocidad_actual))
        pa == aplicar_perturbacion_atenuada(perturbacion)
        rr == RpmRealesNueva(rc, pa)
        va == VelocidadNueva(rr, vn)
    IN  [velocidad_nominal |-> vn, error_volts |-> ev,
         tendencia |-> c.tendencia, velocidad_anterior |-> c.velocidad_anterior,
         integral |-> c.integral, error_anterior_kmh |-> c.error_anterior_kmh,
         senal_control_interna |-> c.control, P |-> c.P, I |-> c.I, D |-> c.D,
         accion_correctiva |-> c.accion_correctiva,
         senal_control_volts |-> volts, error_kmh |-> ekmh, rpm_ctrl |-> rc,
         perturbacion_atenuada |-> pa, rpm_reales |-> rr,
         velocidad_actual |-> va, retroalimentacion |-> va,
         en_rango |-> esta_en_rango_objetivo(vn, va)]

\* The values one complete call of actualizar_sistema computes.
Paso(perturbacion, objetivo) ==
    PasoCon(TendenciaNueva(velocidad_actual), perturbacion, objetivo)

\* actualizar_sistema(perturbacion, velocidad_nominal).  With dt = 0 the trend
\* of the controller divides by zero and the call ends there in
\* ZeroDivisionError, after the assignments made before the controller call.
actualizar_sistema(perturbacion, objetivo) ==
    IF dt = 0 /\ Len(historial.salida) >= 2
    THEN /\ velocidad_nominal' = NominalNueva(objetivo)
         /\ tiempo_transcurrido' = TiempoNuevo
         /\ error_volts' = velocidad_a_voltaje(NominalNueva(objetivo) * Escala)
                             - velocidad_a_voltaje(velocidad_actual)
         /\ fallo' = "ZeroDivisionError"
         /\ ticks' = ticks + 1
         /\ UNCHANGED <<dt, velocidad_actual, rpm_ctrl, rpm_reales, error_kmh,
                        senal_control_interna, senal_control_volts,
                        retroalimentacion, integral, error_anterior_kmh,
                        velocidad_anterior, tendencia, historial,
                        accion_correctiva, perturbacion_atenuada, log_lineas,
                        guion>>
    ELSE
    \E r \in {Paso(perturbacion, objetivo)} :
    LET h == [tiempo           |-> append(historial.tiempo, tiempo_actual),
              entrada          |-> append(historial.entrada, r.velocidad_nominal),
              salida           |-> append(historial.salida, r.velocidad_actual),
              error_kmh        |-> append(historial.error_kmh, r.error_kmh),
              error_volts      |-> append(historial.error_volts, r.error_volts),
              control_interna  |-> append(historial.control_interna,
                                          r.senal_control_interna),
              control_volts    |-> append(historial.control_volts,
                                          r.senal_control_volts),
              perturbacion     |-> append(historial.perturbacion, perturbacion),
              retro            |-> append(historial.retro, r.retroalimentacion),
              proporcional     |-> append(historial.proporcional, r.P),
              integral         |-> append(historial.integral, r.I),
              derivativo       |-> append(historial.derivativo, r.D),
              rpm_ctrl         |-> append(historial.rpm_ctrl, r.rpm_ctrl),
              rpm_reales       |-> append(historial.rpm_reales, r.rpm_reales),
              en_rango         |-> append(historial.en_rango, r.en_rango)]
    IN  /\ velocidad_nominal' = r.velocidad_nominal
        /\ tiempo_transcurrido' = TiempoNuevo
        /\ error_volts' = r.error_volts
        /\ tendencia' = r.tendencia
        /\ velocidad_anterior' = r.velocidad_anterior
        /\ integral' = r.integral
        /\ error_anterior_kmh' = r.error_anterior_kmh
        /\ senal_control_interna' = r.senal_control_interna
        /\ accion_correctiva' = r.accion_correctiva
        /\ senal_control_volts' = r.senal_control_volts
        /\ error_kmh' = r.error_kmh
        /\ rpm_ctrl' = r.rpm_ctrl
        /\ perturbacion_atenuada' = r.perturbacion_atenuada
        /\ rpm_reales' = r.rpm_reales
        /\ velocidad_actual' = r.velocidad_actual
        /\ retroalimentacion' = r.retroalimentacion
        /\ historial' = h
        /\ log_lineas' = IF Len(h.tiempo) % log_cada = 0
                         THEN log_lineas + 1 ELSE log_lineas
        /\ fallo' = "ninguno"
        /\ ticks' = ticks + 1
        /\ UNCHANGED <<dt, guion>>

----
\* The sliders read by animar: any of these values on any tick.
Objetivos == {{}} \cup {{vn} : vn \in Nominales}

\* The scripted slider positions of tick k.
Guiones == {"nominal", "perturbacion", "cambio", "borde"}

PerturbacionGuion(g, k) ==
    IF g \in {"perturbacion", "borde"} /\ k > TicksAsentamiento
    THEN 200 * Escala
    ELSE 0

ObjetivoGuion(g, k) ==
    IF g = "borde"
    THEN 99
    ELSE IF g = "cambio" /\ k > TicksAsentamiento THEN 60 ELSE 80

\* animar with free sliders, from construction ("libre") or once the system
\* has settled at the initial slider positions ("asentado").
Tick ==
    /\ \/ guion = "libre" /\ ticks < MaxTicks
       \/ /\ guion = "asentado"
          /\ ticks >= TicksAsentamiento
          /\ ticks < TicksAsentamiento + MaxTicks
    /\ \E p \in Perturbaciones, o \in Objetivos : actualizar_sistema(p, o)

\* animar with both sliders left at their initial positions (valinit 0 and 80).
TickReposo ==
    /\ guion = "asentado"
    /\ ticks < TicksAsentamiento
    /\ actualizar_sistema(0, {velocidad_nominal_inicial})

\* animar with scripted sliders.
TickGuion ==
    /\ guion \in Guiones
    /\ ticks < MaxTicksGuion
    /\ actualizar_sistema(PerturbacionGuion(guion, ticks + 1),
                          {ObjetivoGuion(guion, ticks + 1)})

Init == \E g \in {"libre", "asentado"} : Construido(dt_inicial, g)
Next == Tick \/ TickReposo
Spec == Init /\ [][Next]_vars

InitGuion == \E g \in Guiones : Construido(dt_inicial, g)
NextGuion == TickGuion
SpecGuion == InitGuion /\ [][NextGuion]_vars

InitDt == \E d \in DtValores : Construido(d, "libre")
NextDt == Tick
SpecDt == InitDt /\ [][NextDt]_vars

----
EnRango == esta_en_rango_objetivo(velocidad_nominal, velocidad_actual)

\* C1: after every tick, and at construction, velocidad_actual lies within
\* [velocidad_min, velocidad_max] = [50, 100] km/h, whatever disturbances and
\* targets the ticks were given.
C1_VelocidadAcotada ==
    /\ velocidad_actual >= velocidad_min * Escala
    /\ velocidad_actual <= velocidad_max * Escala

\* A tick whose unlimited speed was above velocidad_max and was cut to it.
C1_Testigo ==
    /\ ticks > 0
    /\ VelocidadSinLimite(rpm_reales, velocidad_nominal) > velocidad_max * Escala
    /\ velocidad_actual = velocidad_max * Escala

\* C2: after every tick, and at construction, rpm_ctrl and rpm_reales both lie
\* within [4700, 6300] rpm.
C2_RpmAcotadas ==
    /\ rpm_ctrl >= rpm_limite_min * Escala
    /\ rpm_ctrl <= rpm_limite_max * Escala
    /\ rpm_reales >= rpm_limite_min * Escala
    /\ rpm_reales <= rpm_limite_max * Escala

\* A tick whose rpm_ctrl plus disturbance fell below 4700 and was cut to it.
C2_Testigo ==
    /\ ticks > 0
    /\ rpm_ctrl + perturbacion_atenuada < rpm_limite_min * Escala
    /\ rpm_reales = rpm_limite_min * Escala

\* C3: after every controller call the integral accumulator satisfies
\* |integral| <= 2, on the accumulate branch and on the decay branch.
C3_IntegralAcotada == Abs(integral) <= 2 * EscalaIntegral

\* A call that took the decay branch (start-of-tick speed outside the band) on
\* an integral that earlier calls had accumulated.
C3_Testigo ==
    /\ ticks > TicksAsentamiento
    /\ integral # 0
    /\ ~esta_en_rango_objetivo(velocidad_nominal, velocidad_anterior)

\* C4: with target 80 and disturbance 0 on every tick from construction, the
\* speed is inside the band [78, 81] on every tick from 100 to 150, and once it
\* is inside the band it is inside after every later tick up to tick 150.
C4_EntraYPermanece ==
    /\ [](guion = "nominal" /\ ticks >= 100 /\ ticks <= 150 => EnRango)
    /\ [][guion = "nominal" /\ ticks < 150 /\ EnRango => EnRango']_vars

\* The run has entered the band from outside and reached tick 150 inside it.
C4_Testigo ==
    /\ guion = "nominal"
    /\ ticks = 150
    /\ EnRango
    /\ Len(historial.en_rango) = max_points
    /\ ~historial.en_rango[1]

\* C5: once settled at target 80, a raw disturbance of 200 on every tick makes
\* rpm_reales rise on the first disturbed tick, and after every disturbed tick
\* |velocidad_actual - 80| < 3 and velocidad_actual <= velocidad_max.
C5_PerturbacionSostenida ==
    /\ [](guion = "perturbacion" /\ ticks > TicksAsentamiento
            => /\ Abs(velocidad_actual - 80 * Escala) < 3 * Escala
               /\ velocidad_actual <= velocidad_max * Escala)
    /\ [][guion = "perturbacion" /\ ticks = TicksAsentamiento
            => rpm_reales' > rpm_reales]_vars

\* The end of the disturbed run: the attenuated disturbance is in rpm_reales
\* and the controller has taken it out of rpm_ctrl.
C5_Testigo ==
    /\ guion = "perturbacion"
    /\ ticks = MaxTicksGuion
    /\ perturbacion_atenuada = 60 * Escala
    /\ rpm_reales = rpm_ctrl + perturbacion_atenuada
    /\ rpm_ctrl < rpm_nominal * Escala

\* C6: once settled at target 80 with no disturbance, a target of 60 from then
\* on makes the corrective term non-zero on the first tick with the new target,
\* puts the speed inside the new band [58, 61] after that tick and after every
\* later one, and the speed stays within [50, 100] throughout.
C6_CambioDeObjetivo ==
    guion = "cambio" =>
        /\ velocidad_actual >= velocidad_min * Escala
        /\ velocidad_actual <= velocidad_max * Escala
        /\ ticks = TicksAsentamiento + 1 => accion_correctiva # 0
        /\ ticks > TicksAsentamiento => esta_en_rango_objetivo(60, velocidad_actual)

\* A tick of the transient on which the corrective term acted.
C6_Testigo ==
    /\ guion = "cambio"
    /\ ticks > TicksAsentamiento
    /\ velocidad_nominal = 60
    /\ accion_correctiva # 0
    /\ EnRango

\* C7: no history series ever holds more than 150 samples; a tick on a full
\* series drops exactly its oldest sample, keeps the others in order and puts
\* the new sample last.
C7_HistorialFIFO ==
    /\ [](\A f \in DOMAIN historial : Len(historial[f]) <= max_points)
    /\ [][ticks' = ticks + 1 /\ Len(historial.tiempo) = max_points
            => /\ \A f \in DOMAIN historial :
                    /\ Len(historial'[f]) = max_points
                    /\ SubSeq(historial'[f], 1, max_points - 1) = Tail(historial[f])
               /\ Last(historial'.salida) = velocidad_actual'
               /\ Last(historial'.entrada) = velocidad_nominal'
               /\ Last(historial'.rpm_ctrl) = rpm_ctrl'
               /\ Last(historial'.rpm_reales) = rpm_reales'
               /\ Last(historial'.tiempo) = Last(historial.tiempo) + dt]_vars

\* A full history from which samples of real ticks have already been dropped.
C7_Testigo ==
    /\ Len(historial.tiempo) = max_points
    /\ ticks > max_points
    /\ historial.tiempo[1] > puntos_iniciales * dt

\* C8: after n ticks exactly n div 5 log lines have been emitted: one on each
\* 5th tick and none on any other tick.
C8_LogCadaQuintoTick == log_lineas = ticks \div log_cada

\* C9: a system whose dt is <= 0 is rejected at construction, so no tick ever
\* runs on a system whose dt is <= 0.
C9_DtNoPositivoRechazado == ticks > 0 /\ fallo = "ninguno" => dt > 0

\* C10: with dt = 0 a controller call completes without a division by zero
\* and its derivative term is 0.
C10_DtCeroSinFallo ==
    dt = 0 /\ ticks > 0 => fallo = "ninguno" /\ Last(historial.derivativo) = 0

\* C11: a raw disturbance outside -100..200 rpm is limited silently: the
\* shaped value is 0.3 times the limited value and lies in -30..60 rpm, and a
\* tick with the raw value leaves the same control-path state (commanded rpm,
\* actual rpm, speed, integral, previous error, previous speed) as a tick with
\* the nearest limit.
C11_PerturbacionLimitada ==
    /\ [](ticks > 0 =>
            /\ perturbacion_atenuada
                  = Div(clip(Last(historial.perturbacion),
                             (0 - 100) * Escala, 200 * Escala) * 3, 10)
            /\ perturbacion_atenuada >= (0 - 30) * Escala
            /\ perturbacion_atenuada <= 60 * Escala)
    /\ [][ticks' = ticks + 1 /\ fallo' = "ninguno"
            => \A r \in {Paso(clip(Last(historial'.perturbacion),
                                     (0 - 100) * Escala, 200 * Escala),
                                {velocidad_nominal'})} :
                   /\ rpm_ctrl' = r.rpm_ctrl
                   /\ rpm_reales' = r.rpm_reales
                   /\ velocidad_actual' = r.velocidad_actual
                   /\ integral' = r.integral
                   /\ error_anterior_kmh' = r.error_anterior_kmh
                   /\ velocidad_anterior' = r.velocidad_anterior
                   /\ perturbacion_atenuada' = r.perturbacion_atenuada]_vars

\* A tick has run with a raw disturbance above the upper limit and shaped it
\* to the 60 rpm of the limit, without a failure.
C11_Testigo ==
    /\ ticks > 0
    /\ fallo = "ninguno"
    /\ Last(historial.perturbacion) > 200 * Escala
    /\ perturbacion_atenuada = 60 * Escala

\* C12: a target outside the 50..100 km/h envelope is limited silently: a tick
\* given it leaves the same control-path state (speed, commanded rpm, actual
\* rpm, integral, previous error) and the same tolerance band as a tick given
\* the nearest envelope bound.
C12_ObjetivoLimitado ==
    [][ticks' = ticks + 1 /\ fallo' = "ninguno"
         => LET limite == clip(velocidad_nominal', velocidad_min, velocidad_max)
                r == Paso(Last(historial'.perturbacion), {limite})
            IN  /\ velocidad_actual' = r.velocidad_actual
                /\ rpm_ctrl' = r.rpm_ctrl
                /\ rpm_reales' = r.rpm_reales
                /\ integral' = r.integral
                /\ error_anterior_kmh' = r.error_anterior_kmh
                /\ rango_min(velocidad_nominal') = rango_min(limite)
                /\ rango_max(velocidad_nominal') = rango_max(limite)]_vars

\* The speeds the program holds in a state: the current speed, the recorded
\* speeds, the target and the two ends of the sensor range.
VelocidadesDelEstado ==
    {velocidad_actual, velocidad_nominal * Escala,
     vss_vel_min * Escala, vss_vel_max * Escala}
      \cup {historial.salida[i] : i \in 1..Len(historial.salida)}

\* C13: for every speed s within the sensor range 50..100 km/h, converting s
\* to volts and back gives s again (at the resolution of 1/1000 km/h).
C13_IdaYVuelta ==
    \A s \in VelocidadesDelEstado :
        vss_vel_min * Escala <= s /\ s <= vss_vel_max * Escala
            => voltaje_a_velocidad(velocidad_a_voltaje(s)) = s

\* A tick has left a speed strictly inside the sensor range that is not a
\* whole number of km/h, and its voltage is strictly inside 0..5 V and
\* converts back to it.
C13_Testigo ==
    /\ ticks > 0
    /\ fallo = "ninguno"
    /\ velocidad_actual > vss_vel_min * Escala
    /\ velocidad_actual < vss_vel_max * Escala
    /\ velocidad_actual % Escala # 0
    /\ velocidad_a_voltaje(velocidad_actual) > vss_volt_min * EscalaVolt
    /\ velocidad_a_voltaje(velocidad_actual) < vss_volt_max * EscalaVolt
    /\ voltaje_a_velocidad(velocidad_a_voltaje(velocidad_actual)) = velocidad_actual

\* The raw disturbances recorded in the history.
PerturbacionesRegistradas ==
    {historial.perturbacion[i] : i \in 1..Len(historial.perturbacion)}

\* The recorded raw disturbances, each limited to -100..200 rpm.
PerturbacionesLimitadas ==
    {clip(p, (0 - 100) * Escala, 200 * Escala) : p \in PerturbacionesRegistradas}

\* C14 as stated: for every value v inside -100..200 rpm, shaping v twice gives
\* the same result as shaping it once.
C14_AtenuacionIdempotente ==
    \A v \in PerturbacionesLimitadas :
        aplicar_perturbacion_atenuada(aplicar_perturbacion_atenuada(v))
            = aplicar_perturbacion_atenuada(v)

\* C14 amended: only the limiting step of the shaping is idempotent.  For
\* every raw value p, limiting the limited value changes nothing and shaping
\* the limited value gives the same result as shaping p; the shaping as a
\* whole is not idempotent: a second application attenuates by 0.3 again.
C14_LimiteIdempotente ==
    \A p \in PerturbacionesRegistradas :
        LET v == clip(p, (0 - 100) * Escala, 200 * Escala)
        IN  /\ clip(v, (0 - 100) * Escala, 200 * Escala) = v
            /\ aplicar_perturbacion_atenuada(v) = aplicar_perturbacion_atenuada(p)
            /\ aplicar_perturbacion_atenuada(aplicar_perturbacion_atenuada(v))
                  = Div(aplicar_perturbacion_atenuada(v) * 3, 10)

\* A tick has shaped a raw disturbance below the lower limit to the -30 rpm of
\* the limit, and shaping that result again gives -9 rpm.
C14_Testigo ==
    /\ ticks > 0
    /\ fallo = "ninguno"
    /\ Last(historial.perturbacion) < (0 - 100) * Escala
    /\ perturbacion_atenuada = (0 - 30) * Escala
    /\ aplicar_perturbacion_atenuada(perturbacion_atenuada) = (0 - 9) * Escala

\* C15: esta_en_rango_objetivo is true exactly when
\* target - 2 <= speed <= target + 1, both ends included and the band taken
\* from the current target; the flag every tick records is that value for the
\* tick's final speed, and evaluating it changes no state.
C15_EnRangoInclusivo ==
    /\ ticks > 0 /\ fallo = "ninguno" =>
          Last(historial.en_rango)
            = (/\ velocidad_nominal * Escala - 2 * Escala <= velocidad_actual
               /\ velocidad_actual <= velocidad_nominal * Escala + 1 * Escala)
    /\ esta_en_rango_objetivo(velocidad_nominal, velocidad_actual)
          = (/\ velocidad_nominal * Escala - 2 * Escala <= velocidad_actual
             /\ velocidad_actual <= velocidad_nominal * Escala + 1 * Escala)
    /\ esta_en_rango_objetivo(velocidad_nominal,
                              velocidad_nominal * Escala - 2 * Escala)
    /\ esta_en_rango_objetivo(velocidad_nominal,
                              velocidad_nominal * Escala + 1 * Escala)
    /\ ~esta_en_rango_objetivo(velocidad_nominal,
                               velocidad_nominal * Escala - 2 * Escala - 1)
    /\ ~esta_en_rango_objetivo(velocidad_nominal,
                               velocidad_nominal * Escala + 1 * Escala + 1)

\* A tick with a target other than the initial one has left the speed exactly
\* on the upper end of the band, and the recorded flag is true.
C15_Testigo ==
    /\ ticks > 0
    /\ fallo = "ninguno"
    /\ velocidad_nominal # velocidad_nominal_inicial
    /\ velocidad_actual = velocidad_nominal * Escala + 1 * Escala
    /\ Last(historial.en_rango) = TRUE

\* C16: every tick increases tiempo_transcurrido by exactly dt, the elapsed
\* time never decreases, and after n ticks it equals n * dt.
C16_TiempoTranscurrido ==
    /\ [](tiempo_transcurrido = ticks * dt)
    /\ [][/\ tiempo_transcurrido' >= tiempo_transcurrido
          /\ ticks' = ticks + 1 => tiempo_transcurrido' = tiempo_transcurrido + dt]_vars

\* Several ticks have run since construction and the clock has advanced.
C16_Testigo ==
    /\ ticks >= 3
    /\ fallo = "ninguno"
    /\ dt > 0
    /\ tiempo_transcurrido = ticks * dt
    /\ tiempo_transcurrido >= 3 * dt

\* The series of the history.
SeriesDelHistorial ==
    {"tiempo", "entrada", "salida", "error_kmh", "error_volts",
     "control_interna", "control_volts", "perturbacion", "retro",
     "proporcional", "integral", "derivativo", "rpm_ctrl", "rpm_reales",
     "en_rango"}

C18_ProporcionalPorZona ==
    [][ticks' = ticks + 1 /\ fallo' = "ninguno"
         => LET v == velocidad_actual
                objetivo == velocidad_nominal' * Escala
                e == error_volts_a_kmh(error_volts')
                P == Last(historial'.proporcional)
            IN  /\ v > objetivo + 1 * Escala
                      => P = Div(600 * (objetivo - v), 100)
                /\ v < objetivo - 2 * Escala
                      => P = Div(520 * (objetivo - v), 100)
                /\ (objetivo - 2 * Escala <= v /\ v <= objetivo + 1 * Escala)
                      => /\ Abs(v - objetivo) > 300 => P = Div(280 * e, 100)
                         /\ Abs(v - objetivo) <= 300 => P = Div(400 * e, 100)]_vars

\* A tick has started with the speed inside the band and more than 0.3 km/h
\* from the target, and its proportional term is the non-zero 0.7 * Kp * error.
C18_Testigo ==
    /\ ticks > 0
    /\ fallo = "ninguno"
    /\ esta_en_rango_objetivo(velocidad_nominal, velocidad_anterior)
    /\ Abs(velocidad_anterior - velocidad_nominal * Escala) > 300
    /\ Last(historial.proporcional) # 0
    /\ Last(historial.proporcional) = Div(280 * error_anterior_kmh, 100)
    /\ Last(historial.proporcional) # Div(400 * error_anterior_kmh, 100)

\* C19: a controller call either accumulates or decays the integral, never
\* both: with the start-of-tick speed in the band and |error| < 1.0 it becomes
\* clip(integral + error * dt * 0.02, -2, 2); in every other case it becomes
\* integral * 0.9, so its magnitude does not grow on such a tick.
C19_AcumulaODecae ==
    [][ticks' = ticks + 1 /\ fallo' = "ninguno"
         => LET v == velocidad_actual
                objetivo == velocidad_nominal' * Escala
                e == error_volts_a_kmh(error_volts')
                elegible == /\ objetivo - 2 * Escala <= v
                            /\ v <= objetivo + 1 * Escala
                            /\ Abs(e) < 1 * Escala
            IN  /\ elegible
                      => integral' = clip(integral + Div(e * dt * 2, 100),
                                          0 - 2000000, 2000000)
                /\ ~elegible
                      => /\ integral' = Div(integral * 9, 10)
                         /\ Abs(integral') <= Abs(integral)]_vars

\* A call with the speed in the band and a non-zero error below 1 km/h has
\* accumulated into an integral that is neither zero nor at its limit.
C19_Testigo ==
    /\ ticks > 0
    /\ fallo = "ninguno"
    /\ esta_en_rango_objetivo(velocidad_nominal, velocidad_anterior)
    /\ error_anterior_kmh # 0
    /\ Abs(error_anterior_kmh) < 1 * Escala
    /\ integral # 0
    /\ Abs(integral) < 2 * EscalaIntegral
    /\ Last(historial.integral) # 0

\* C20: the derivative term of a call is Kd * (error - previous error) / dt,
\* where the previous error is the error of the call before (0 before the
\* first call); after every call the previous error is the error supplied to
\* that call.
C20_DerivativoYErrorAnterior ==
    /\ [](ticks = 0 => error_anterior_kmh = 0)
    /\ [][ticks' = ticks + 1 /\ fallo' = "ninguno"
            => LET e == error_volts_a_kmh(error_volts')
               IN  /\ Last(historial'.derivativo)
                         = Div(80 * Div((e - error_anterior_kmh) * 1000, dt), 100)
                   /\ error_anterior_kmh' = e]_vars

\* A second or later call has produced a non-zero derivative term from two
\* different non-zero errors.
C20_Testigo ==
    /\ ticks >= 2
    /\ fallo = "ninguno"
    /\ Last(historial.derivativo) # 0
    /\ error_anterior_kmh # 0
    /\ error_anterior_kmh = error_volts_a_kmh(error_volts)
    /\ historial.error_kmh[Len(historial.error_kmh) - 1] # 0

\* C21: with projection = speed + trend * dt, the corrective term is
\* -10 * (projection - (band max + 0.2)), negative, when the projection is
\* above band max + 0.3; it is 6 * ((band min - 0.2) - projection), positive,
\* when the projection is below band min - 0.3; otherwise it is 0.  The term
\* is added to P + I + D before the saturation.
C21_AccionCorrectiva ==
    [][ticks' = ticks + 1 /\ fallo' = "ninguno"
         => LET proyeccion == velocidad_actual + Div(tendencia' * dt, 1000)
                banda_min == velocidad_nominal' * Escala - 2 * Escala
                banda_max == velocidad_nominal' * Escala + 1 * Escala
                suma == Last(historial'.proporcional) + Last(historial'.integral)
                          + Last(historial'.derivativo) + accion_correctiva'
            IN  /\ proyeccion > banda_max + 300
                      => /\ accion_correctiva' = 0 - 10 * (proyeccion - (banda_max + 200))
                         /\ accion_correctiva' < 0
                /\ proyeccion < banda_min - 300
                      => /\ accion_correctiva' = 6 * ((banda_min - 200) - proyeccion)
                         /\ accion_correctiva' > 0
                /\ (proyeccion <= banda_max + 300 /\ proyeccion >= banda_min - 300)
                      => accion_correctiva' = 0
                /\ senal_control_interna'
                      = Limitacion(velocidad_nominal', velocidad_actual, suma)]_vars

\* A second or later tick whose trend is not zero has projected the speed
\* below the band and added a positive corrective term to the command.
C21_Testigo ==
    /\ ticks >= 2
    /\ fallo = "ninguno"
    /\ tendencia # 0
    /\ accion_correctiva > 0
    /\ velocidad_anterior + Div(tendencia * dt, 1000)
          < velocidad_nominal * Escala - 2 * Escala - 300

\* C22: the summed command is saturated by zone: when the speed at the start
\* of the tick is above band max + 0.2 the command is within -30..5, when it
\* is below band min - 0.2 the command is within -5..20, otherwise it is
\* within -25..25; in each zone the command is the sum limited to that range.
C22_SaturacionPorZona ==
    [][ticks' = ticks + 1 /\ fallo' = "ninguno"
         => LET v == velocidad_actual
                banda_min == velocidad_nominal' * Escala - 2 * Escala
                banda_max == velocidad_nominal' * Escala + 1 * Escala
                suma == Last(historial'.proporcional) + Last(historial'.integral)
                          + Last(historial'.derivativo) + accion_correctiva'
                u == senal_control_interna'
            IN  /\ v > banda_max + 200
                      => /\ 0 - 30000 <= u /\ u <= 5000
                         /\ u = clip(suma, 0 - 30000, 5000)
                /\ v < banda_min - 200
                      => /\ 0 - 5000 <= u /\ u <= 20000
                         /\ u = clip(suma, 0 - 5000, 20000)
                /\ (v <= banda_max + 200 /\ v >= banda_min - 200)
                      => /\ 0 - 25000 <= u /\ u <= 25000
                         /\ u = clip(suma, 0 - 25000, 25000)]_vars

\* A tick that started below the band has had a sum above 25 limited to the
\* 20 of the lower zone.
C22_Testigo ==
    /\ ticks > 0
    /\ fallo = "ninguno"
    /\ velocidad_anterior < velocidad_nominal * Escala - 2 * Escala - 200
    /\ Last(historial.proporcional) + Last(historial.integral)
          + Last(historial.derivativo) + accion_correctiva > 25 * Escala
    /\ senal_control_interna = 20 * Escala

\* C23: the command the controller returns is within the working range
\* -25..25 that the command-to-voltage mapping assumes: in every reachable
\* state |senal_control_interna| <= 25, so the inner limit of the mapping
\* never changes the value.
C23_RangoOperativo ==
    /\ Abs(senal_control_interna) <= MAX_CTRL_INTERNA * Escala
    /\ clip(senal_control_interna,
            (0 - MAX_CTRL_INTERNA) * Escala, MAX_CTRL_INTERNA * Escala)
          = senal_control_interna

\* C24: one plant step computes, in this order, the gain 18, times 1.3 exactly
\* when the speed at the start of the tick is outside the band of the tick's
\* target; rpm_ctrl = clip(rpm_ctrl + command * gain * dt, 4700, 6300);
\* rpm_reales = clip(rpm_ctrl + shaped disturbance, 4700, 6300);
\* speed = clip(rpm_reales / 5500 * target, 50, 100); and the feedback equals
\* the new speed.  After every tick the speed is this limited linear function
\* of rpm_reales and the target.
C24_PasoDePlanta ==
    /\ [](ticks > 0 /\ fallo = "ninguno"
            => /\ velocidad_actual
                    = clip(Div(rpm_reales * velocidad_nominal, 5500), 50000, 100000)
               /\ retroalimentacion = velocidad_actual)
    /\ [][ticks' = ticks + 1 /\ fallo' = "ninguno"
            => LET v == velocidad_actual
                   fuera == \/ v < velocidad_nominal' * Escala - 2 * Escala
                            \/ v > velocidad_nominal' * Escala + 1 * Escala
                   ganancia == IF fuera THEN 234 ELSE 180
                   cambio == Div(senal_control_interna' * ganancia, 10)
               IN  /\ rpm_ctrl' = clip(rpm_ctrl + Div(cambio * dt, 1000),
                                       4700000, 6300000)
                   /\ rpm_reales' = clip(rpm_ctrl' + perturbacion_atenuada',
                                         4700000, 6300000)
                   /\ velocidad_actual'
                         = clip(Div(rpm_reales' * velocidad_nominal', 5500),
                                50000, 100000)
                   /\ retroalimentacion' = velocidad_actual']_vars

\* A tick that started outside the band, with a non-zero command and a
\* non-zero shaped disturbance, has moved rpm_ctrl with the raised gain and
\* left rpm and speed strictly inside their limits.
C24_Testigo ==
    /\ ticks >= 2
    /\ fallo = "ninguno"
    /\ ~esta_en_rango_objetivo(velocidad_nominal, velocidad_anterior)
    /\ senal_control_interna # 0
    /\ perturbacion_atenuada # 0
    /\ rpm_ctrl > 4700000 /\ rpm_ctrl < 6300000
    /\ rpm_reales = rpm_ctrl + perturbacion_atenuada
    /\ rpm_ctrl - historial.rpm_ctrl[Len(historial.rpm_ctrl) - 1]
          = Div(Div(senal_control_interna * 234, 10) * dt, 1000)
    /\ velocidad_actual > 50000 /\ velocidad_actual < 100000
    /\ velocidad_actual = Div(rpm_reales * velocidad_nominal, 5500)

\* C25: whenever the target and the speed at the start of the tick both lie in
\* the sensor range 50..100 km/h, the error the control law works with,
\* error_volts_a_kmh(voltage of the target - voltage of the speed), equals
\* target - speed (at the resolution of 1/1000 km/h), and so equals the
\* error_kmh recorded for that tick.
C25_ErrorIdaYVuelta ==
    [][(/\ ticks' = ticks + 1 /\ fallo' = "ninguno"
        /\ vss_vel_min <= velocidad_nominal' /\ velocidad_nominal' <= vss_vel_max
        /\ vss_vel_min * Escala <= velocidad_actual
        /\ velocidad_actual <= vss_vel_max * Escala)
         => LET e == error_volts_a_kmh(velocidad_a_voltaje(velocidad_nominal' * Escala)
                                         - velocidad_a_voltaje(velocidad_actual))
            IN  /\ e = velocidad_nominal' * Escala - velocidad_actual
                /\ e = error_anterior_kmh'
                /\ e = error_kmh'
                /\ e = Last(historial'.error_kmh)]_vars

\* A tick with the target in the sensor range has worked with an error that
\* is neither zero nor a whole number of km/h, equal to the recorded one.
C25_Testigo ==
    /\ ticks > 0
    /\ fallo = "ninguno"
    /\ vss_vel_min <= velocidad_nominal /\ velocidad_nominal <= vss_vel_max
    /\ error_anterior_kmh % Escala # 0
    /\ error_anterior_kmh = Last(historial.error_kmh)
    /\ error_anterior_kmh = error_volts_a_kmh(error_volts)

\* C26: every controller call sets the trend to (speed at the start of the
\* tick - velocidad_anterior) / dt and then sets velocidad_anterior to that
\* speed, whatever branch is taken; hence on a tick after the first the trend
\* is (speed after the previous tick - speed after the tick before it) / dt,
\* and on the first tick it is 0.
C26_Tendencia ==
    /\ [](ticks = 1 /\ fallo = "ninguno" => tendencia = 0)
    /\ [](ticks > 0 /\ fallo = "ninguno"
            => LET n == Len(historial.salida)
               IN  /\ velocidad_anterior = historial.salida[n - 1]
                   /\ tendencia
                         = Div((historial.salida[n - 1] - historial.salida[n - 2]) * 1000,
                               dt))
    /\ [][ticks' = ticks + 1 /\ fallo' = "ninguno"
            => /\ tendencia' = Div((velocidad_actual - velocidad_anterior) * 1000, dt)
               /\ velocidad_anterior' = velocidad_actual]_vars

\* A tick after the first has computed a non-zero trend from the speeds that
\* the two ticks before it left.
C26_Testigo ==
    /\ ticks >= 3
    /\ fallo = "ninguno"
    /\ tendencia # 0
    /\ velocidad_anterior # velocidad_actual
    /\ velocidad_anterior = historial.salida[Len(historial.salida) - 1]
    /\ historial.salida[Len(historial.salida) - 2] # velocidad_inicial * Escala

\* C27: at every point of a run the time stamps held in the history are
\* strictly increasing in insertion order and each consecutive pair differs
\* by exactly dt, across the pre-filled samples, the appends and the
\* evictions.
C27_TiemposCrecientes ==
    \A i \in 1..(Len(historial.tiempo) - 1) :
        /\ historial.tiempo[i] < historial.tiempo[i + 1]
        /\ historial.tiempo[i + 1] - historial.tiempo[i] = dt

\* A full history whose five pre-filled samples and more have been evicted:
\* it spans 149 steps of dt and ends at the stamp of the last tick.
C27_Testigo ==
    /\ ticks > max_points
    /\ fallo = "ninguno"
    /\ Len(historial.tiempo) = max_points
    /\ historial.tiempo[1] = (ticks + puntos_iniciales - max_points) * dt
    /\ Last(historial.tiempo) = (ticks + puntos_iniciales - 1) * dt

\* The commands given to senal_control_a_voltaje: the command of the state
\* and a grid from -40 to 40 in steps of 2.5.
Comandos == {senal_control_interna} \cup {k * 2500 : k \in (0 - 16)..16}

\* C28: senal_control_a_voltaje returns a voltage within 0..5 V for any
\* command, maps the command 0 to the neutral 2.5 V, returns
\* 2.5 + 0.1 * command for commands within -25..25, and is non-decreasing in
\* the command; the voltage every tick records is that of its command.
C28_ComandoAVoltaje ==
    /\ \A C \in {Comandos} :
          /\ \A u \in C :
                /\ senal_control_a_voltaje(u) >= 0
                /\ senal_control_a_voltaje(u) <= 50000
                /\ Abs(u) <= 25000 => senal_control_a_voltaje(u) = 25000 + u
          /\ \A a, b \in C :
                a <= b => senal_control_a_voltaje(a) <= senal_control_a_voltaje(b)
    /\ senal_control_a_voltaje(0) = 25000
    /\ ticks > 0 /\ fallo = "ninguno"
          => senal_control_volts = senal_control_a_voltaje(senal_control_interna)

\* A tick has mapped a command beyond -25 to 0 V, after a tick whose command
\* inside the working range was mapped to a voltage strictly between 0 and
\* 5 V other than the neutral one.
C28_Testigo ==
    /\ ticks >= 2
    /\ fallo = "ninguno"
    /\ senal_control_interna < (0 - MAX_CTRL_INTERNA) * Escala
    /\ senal_control_volts = 0
    /\ LET n == Len(historial.control_interna)
       IN  /\ historial.control_interna[n - 1] # 0
           /\ Abs(historial.control_interna[n - 1]) < MAX_CTRL_INTERNA * Escala
           /\ historial.control_volts[n - 1]
                 = senal_ctrl_offset + historial.control_interna[n - 1]

\* Recorded speeds of systems that differ from this one in the contents or in
\* the length of the history: this system's own series, its last two samples
\* alone, the series as pre-filled at construction, and a series of the same
\* length holding other values.
SalidasAlternativas ==
    {historial.salida,
     SubSeq(historial.salida, Len(historial.salida) - 1, Len(historial.salida)),
     [i \in 1..puntos_iniciales |-> velocidad_inicial * Escala],
     [i \in 1..Len(historial.salida) |-> velocidad_min * Escala]}

\* The control-path state that a tick leaves in a system that agrees with this
\* one on the control-path state and whose recorded speeds are salida.
PasoDeOtroSistema(salida, perturbacion, objetivo) ==
    PasoCon(TendenciaCon(salida, velocidad_actual), perturbacion, objetivo)

\* C29: the history produces no control-path feedback: systems that agree on
\* the control-path state (target, speed, rpm_ctrl, rpm_reales, integral,
\* previous error, previous speed, trend) and differ in the contents or the
\* length of the history agree on the control-path state after a tick with
\* the same inputs.
C29_HistorialSinRealimentacion ==
    [][ticks' = ticks + 1 /\ fallo' = "ninguno"
         => \A salida \in SalidasAlternativas :
              \A r \in {PasoDeOtroSistema(salida, Last(historial'.perturbacion),
                                           {velocidad_nominal'})} :
                  /\ r.velocidad_nominal = velocidad_nominal'
                  /\ r.velocidad_actual = velocidad_actual'
                  /\ r.rpm_ctrl = rpm_ctrl'
                  /\ r.rpm_reales = rpm_reales'
                  /\ r.integral = integral'
                  /\ r.error_anterior_kmh = error_anterior_kmh'
                  /\ r.velocidad_anterior = velocidad_anterior'
                  /\ r.tendencia = tendencia']_vars

\* A tick with a non-zero trend has run on a full history from which the
\* pre-filled samples are gone, so the four alternative series all differ.
C29_Testigo ==
    /\ ticks > max_points
    /\ fallo = "ninguno"
    /\ tendencia # 0
    /\ Len(historial.salida) = max_points
    /\ historial.salida[1] # velocidad_inicial * Escala
    /\ Cardinality(SalidasAlternativas) = 4

\* C30: all the series of the history have the same length at every tick
\* boundary: 5 right after construction and min(150, 5 + n) after n ticks, so
\* each tick appends exactly one entry to every series.
C30_SeriesDeIgualLongitud ==
    /\ [](\A f \in DOMAIN historial :
            /\ Len(historial[f]) = Len(historial.tiempo)
            /\ Len(historial[f]) = IF 5 + ticks < 150 THEN 5 + ticks ELSE 150)
    /\ [](ticks = 0 => Len(historial.tiempo) = 5)
    /\ [][ticks' = ticks + 1 /\ fallo' = "ninguno"
            => \A f \in DOMAIN historial :
                 /\ Len(historial[f]) < 150
                       => /\ Len(historial'[f]) = Len(historial[f]) + 1
                          /\ SubSeq(historial'[f], 1, Len(historial[f])) = historial[f]
                 /\ Len(historial[f]) = 150
                       => /\ Len(historial'[f]) = 150
                          /\ SubSeq(historial'[f], 1, 149) = Tail(historial[f])]_vars

\* The tick that fills every series to exactly 150 entries, with the first
\* pre-filled sample still in place.
C30_Testigo ==
    /\ ticks = max_points - puntos_iniciales
    /\ fallo = "ninguno"
    /\ \A f \in DOMAIN historial : Len(historial[f]) = max_points
    /\ historial.tiempo[1] = 0
    /\ Last(historial.tiempo) = (max_points - 1) * dt

====
